---- MODULE Spec2Model ----
(***************************************************************************)
(* Model of the hdf5 restructuring ("transposition") of misc_tools:        *)
(*   restructure_hdf5_file   (src/databases_tools.py)                      *)
(*   H5.restructure_fl       (src/sample/databases_tools.py)               *)
(* A store is a function  root group name -> [attrs, items], items a       *)
(* function  entry name -> [data, attrs]; attributes are functions         *)
(* attribute name -> value.  The file system is a function from the paths  *)
(* of the existing files to their stores.                                  *)
(***************************************************************************)
EXTENDS Integers, Sequences, FiniteSets, TLC

\* ------------------------------------------------------------------ bounds
\* Number of root groups (models) and of entry keys (output variables) a
\* source store may hold.
MaxGroups == 2
MaxKeys == 2

\* ------------------------------------------------------------------- names
GroupNames == <<"1", "2", "3", "4">>
KeyNames == <<"a", "b", "c", "d">>
\* h5py enumerates the members of a file or group in alphabetical order.
AllNames == GroupNames \o KeyNames

Groups == {GroupNames[i] : i \in 1..MaxGroups}
Keys == {KeyNames[i] : i \in 1..MaxKeys}

Idx(seq, x) == CHOOSE i \in 1..Len(seq) : seq[i] = x

\* Members of S in h5py iteration order (keys(), values(), items()).
SortedNames(S) == SelectSeq(AllNames, LAMBDA n : n \in S)

\* ------------------------------------------------------------- attributes
NoAttrs == <<>>

\* attrs.update(other): entries of other are added, overriding equal names.
AttrsUpdate(attrs, other) ==
    [n \in (DOMAIN attrs) \cup (DOMAIN other) |->
        IF n \in DOMAIN other THEN other[n] ELSE attrs[n]]

\* ------------------------------------------------------------------ stores
EmptyStore == <<>>

\* out.create_group(key): a new root group without attributes or members.
CreateGroup(st, key) == st @@ (key :> [attrs |-> NoAttrs, items |-> <<>>])

\* Variants of CreateDataset with one slip each: the dataset named by the
\* key instead of the group, the data not copied, the attributes not copied.
CreateDatasetNamedByKey(st, key, group_n, data, attrs) ==
    [st EXCEPT ![key].items =
        @ @@ (key :> [data |-> data, attrs |-> AttrsUpdate(NoAttrs, attrs)])]
CreateDatasetNoData(st, key, group_n, data, attrs) ==
    [st EXCEPT ![key].items =
        @ @@ (group_n :> [data |-> 0, attrs |-> AttrsUpdate(NoAttrs, attrs)])]
CreateDatasetNoAttrs(st, key, group_n, data, attrs) ==
    [st EXCEPT ![key].items =
        @ @@ (group_n :> [data |-> data, attrs |-> NoAttrs])]
\* Variant of CreateDataset that replaces the members the group has.
CreateDatasetReplacing(st, key, group_n, data, attrs) ==
    [st EXCEPT ![key].items =
        (group_n :> [data |-> data, attrs |-> AttrsUpdate(NoAttrs, attrs)])]

\* ds = out_grp.create_dataset(group_n, data=...); ds.attrs.update(attrs)
CreateDataset(st, key, group_n, data, attrs) ==
    [st EXCEPT ![key].items =
        @ @@ (group_n :> [data |-> data, attrs |-> AttrsUpdate(NoAttrs, attrs)])]

\* All enumerations of a finite set, each element once.
Orders(S) ==
    {s \in [1..Cardinality(S) -> S] : \A i, j \in 1..Cardinality(S) :
                                          s[i] = s[j] => i = j}

Range(seq) == {seq[i] : i \in DOMAIN seq}

\* for sublist in input_list for item in sublist: the items in one list.
RECURSIVE Flatten(_)
Flatten(input_list) ==
    IF input_list = <<>> THEN <<>>
    ELSE Head(input_list) \o Flatten(Tail(input_list))

\* Variant of GetUniquesInListOfLists that builds a list, not a set.
GetUniquesInListOfListsNoSet(input_list) == {Flatten(input_list)}

\* get_uniques_in_list_of_lists: list({item for sublist in input_list for
\* item in sublist}), the list of a Python set; its order is not specified,
\* so every order is a possible result.
GetUniquesInListOfLists(input_list) == Orders(Range(Flatten(input_list)))

\* [v.keys() for v in db_file.values()]
KeyLists(st) ==
    LET gs == SortedNames(DOMAIN st)
    IN [i \in 1..Len(gs) |-> SortedNames(DOMAIN st[gs[i]].items)]

\* The entry keys found in any root group of st.
AllEntryKeys(st) == UNION {DOMAIN st[g].items : g \in DOMAIN st}
\* get_unique([v.keys() for v in db_file.values()])
GetUniques(st) == GetUniquesInListOfLists(KeyLists(st))


\* ----------------------------------------------------- the two inner loops
\* for group_n, group in db_file.items():
\*     ds = out_grp.create_dataset(group_n, data=group[key])
\*     ds.attrs.update(group.attrs)
\* acc = [st |-> the store written so far, ok |-> no exception raised].
\* group[key] raises KeyError when the group has no member named key.
\* Variant of CopyDatasets that passes over a group without the key.
RECURSIVE CopyDatasetsSkipMissing(_, _, _, _)
CopyDatasetsSkipMissing(src, key, gs, acc) ==
    IF gs = <<>> \/ ~acc.ok THEN acc
    ELSE LET group_n == Head(gs)
             group == src[group_n]
         IN IF key \notin DOMAIN group.items
            THEN CopyDatasetsSkipMissing(src, key, Tail(gs), acc)
            ELSE CopyDatasetsSkipMissing(src, key, Tail(gs),
                     [acc EXCEPT !.st = CreateDataset(acc.st, key, group_n,
                                            group.items[key].data, group.attrs)])

RECURSIVE CopyDatasets(_, _, _, _)
CopyDatasets(src, key, gs, acc) ==
    IF gs = <<>> \/ ~acc.ok THEN acc
    ELSE LET group_n == Head(gs)
             group == src[group_n]
         IN IF key \notin DOMAIN group.items
            THEN [acc EXCEPT !.ok = FALSE]
            ELSE CopyDatasets(src, key, Tail(gs),
                     [acc EXCEPT !.st = CreateDataset(acc.st, key, group_n,
                                            group.items[key].data, group.attrs)])

\* Variant of RestructureLoop that ends after the first key.
RestructureLoopFirstKey(src, ks, acc) ==
    IF ks = <<>> \/ ~acc.ok THEN acc
    ELSE CopyDatasets(src, Head(ks), SortedNames(DOMAIN src),
             [acc EXCEPT !.st = CreateGroup(acc.st, Head(ks))])

\* restructure_hdf5_file, the loop over common_sub_groups.  create_group
\* raises ValueError when the name exists already.
RECURSIVE RestructureLoop(_, _, _)
RestructureLoop(src, ks, acc) ==
    IF ks = <<>> \/ ~acc.ok THEN acc
    ELSE LET key == Head(ks)
         IN IF key \in DOMAIN acc.st
            THEN [acc EXCEPT !.ok = FALSE]
            ELSE RestructureLoop(src, Tail(ks),
                     CopyDatasets(src, key, SortedNames(DOMAIN src),
                         [acc EXCEPT !.st = CreateGroup(acc.st, key)]))

\* H5.restructure_fl: datasets_attrs[dts_key] = dts.attrs.items(), the value
\* of the last root group holding dts_key remains.
LastHolder(src, k) ==
    LET holders == SelectSeq(SortedNames(DOMAIN src),
                             LAMBDA g : k \in DOMAIN src[g].items)
    IN holders[Len(holders)]
DatasetsAttrs(src) ==
    [k \in AllEntryKeys(src) |-> src[LastHolder(src, k)].items[k].attrs]

\* H5.restructure_fl, the loop over common_dsets_keys.  datasets_attrs[key]
\* raises KeyError (after the group was created) when no root group holds key.
RECURSIVE RestructureLoopFl(_, _, _)
RestructureLoopFl(src, ks, acc) ==
    IF ks = <<>> \/ ~acc.ok THEN acc
    ELSE LET key == Head(ks)
             dattrs == DatasetsAttrs(src)
         IN IF key \in DOMAIN acc.st
            THEN [acc EXCEPT !.ok = FALSE]
            ELSE IF key \notin DOMAIN dattrs
            THEN [st |-> CreateGroup(acc.st, key), ok |-> FALSE]
            ELSE RestructureLoopFl(src, Tail(ks),
                     CopyDatasets(src, key, SortedNames(DOMAIN src),
                         [acc EXCEPT !.st =
                             [CreateGroup(acc.st, key) EXCEPT ![key].attrs =
                                 AttrsUpdate(@, dattrs[key])]]))

StartAcc == [st |-> EmptyStore, ok |-> TRUE]

\* ------------------------------------------------------------------- paths
SourcePaths == {"dir/db.hdf5", "dir/temp"}
ExplicitOutput == "dir/out.hdf5"

\* Path(hd.parent, str(hd.name).replace(hd.stem, str(hd.stem + '_tr'))),
\* on the file names of the model.
DefaultOutputPath(hd) ==
    CASE hd = "dir/db.hdf5" -> "dir/db_tr.hdf5"
      [] hd = "dir/db_tr.hdf5" -> "dir/db_tr_tr.hdf5"
      [] hd = "dir/out.hdf5" -> "dir/out_tr.hdf5"
      [] hd = "dir/temp" -> "dir/temp_tr"
      [] hd = "dir/temp_tr" -> "dir/temp_tr_tr"
      [] OTHER -> "dir/other_tr"

\* temp_path = Path(origin_path.parent, 'temp')
TempPath(origin_path) == "dir/temp"

\* ----------------------------------------------------------- source stores
\* The contents given to a store of a chosen shape:
\*  "test"      tests/test_databases_tools.py: every group carries
\*              model_attribute, every dataset data_attribute and [1, 1, 1];
\*  "scenario"  only group "1" carries an attribute, datasets carry none;
\*  "distinct"  every dataset has its own data and attribute value;
\*  "mixed"     groups and datasets use the same attribute name, and the
\*              datasets of different groups use different names.
Fills == {"test", "scenario", "distinct", "mixed"}

GroupAttrs(fill, g) ==
    LET i == Idx(GroupNames, g)
    IN CASE fill = "test" -> ("model_attribute" :> i)
         [] fill = "scenario" ->
                IF i = 1 THEN ("model_attribute" :> 1) ELSE NoAttrs
         [] fill = "distinct" -> ("model_attribute" :> i)
         [] OTHER -> ("data_attribute" :> 100 + i)

EntryData(fill, g, k) ==
    LET i == Idx(GroupNames, g)
        j == Idx(KeyNames, k)
    IN CASE fill = "distinct" -> 10 * i + j
         [] fill = "mixed" -> j
         [] OTHER -> 1

EntryAttrs(fill, g, k) ==
    LET i == Idx(GroupNames, g)
        j == Idx(KeyNames, k)
    IN CASE fill = "test" -> ("data_attribute" :> j)
         [] fill = "scenario" -> NoAttrs
         [] fill = "distinct" -> ("data_attribute" :> 10 * i + j)
         [] OTHER -> IF i = 1 THEN ("data_attribute" :> j)
                              ELSE ("extra_attribute" :> j)

\* shape: a function from the root groups present to their entry key sets.
MakeStore(shape, fill) ==
    [g \in DOMAIN shape |->
        [attrs |-> GroupAttrs(fill, g),
         items |-> [k \in shape[g] |->
                      [data |-> EntryData(fill, g, k),
                       attrs |-> EntryAttrs(fill, g, k)]]]]

Shapes == UNION {[G -> SUBSET Keys] : G \in SUBSET Groups}
Sources == {MakeStore(shape, fill) : shape \in Shapes, fill \in Fills}

\* A store that may lie at the other paths of the directory before the call.
OldStore ==
    "old" :> [attrs |-> NoAttrs,
              items |-> ("x" :> [data |-> 99, attrs |-> NoAttrs])]

OtherPaths(p) == {DefaultOutputPath(p), ExplicitOutput, TempPath(p)} \ {p}

\* The lists a caller passes as common_sub_groups / common_dsets_keys;
\* <<>> stands for None (and for the empty list, treated alike by `not`).
Reverse(seq) == [i \in 1..Len(seq) |-> seq[Len(seq) + 1 - i]]
ExplicitLists ==
    {<<>>} \cup {SortedNames(S) : S \in SUBSET Keys}
           \cup {<<k, k>> : k \in Keys}
           \cup {Reverse(SortedNames(Keys))}

\* ------------------------------------------------------------------- state
VARIABLES
    fs,       \* path -> store, for the files that exist
    variant,  \* "file": restructure_hdf5_file, "fl": H5.restructure_fl
    pc,       \* position in the running call
    hd,       \* hdf5_path / origin_path
    outp,     \* output_path / temp_path
    given,    \* the argument common_sub_groups / common_dsets_keys
    keys,     \* the key list the loops run over
    hSelf,    \* db_file / self: "closed", "r"
    hOut,     \* out: "closed", "w"
    fs0,      \* the file system when the first call started
    hd0,      \* the source path of the first call
    round,    \* 1 in the first call, 2 in a call on its result
    \* the other functions of the repository, one call (or a sequence of
    \* calls) of one function in each specification:
    args,     \* the arguments of the call, by parameter name
    files,    \* path -> content, the plain files the function works on
    ret       \* what the call returned, and how it ended

\* The state of the restructuring, and the state of the other functions.
trVars == <<fs, variant, pc, hd, outp, given, keys, hSelf, hOut, fs0, hd0, round>>
utVars == <<args, files, ret>>
vars == <<trVars, utVars>>

\* No call of the other functions.
NoCall == [fn |-> "none"]
UtIdle == args = NoCall /\ files = <<>> /\ ret = NoCall

\* Deleting the file at p.
Remove(f, p) == [q \in (DOMAIN f) \ {p} |-> f[q]]
\* Variant of Put that keeps the content of a file that exists (mode 'a').
PutIfAbsent(f, p, st) ==
    [q \in (DOMAIN f) \cup {p} |-> IF q \in DOMAIN f THEN f[q] ELSE st]

\* Writing the file at p: it is created or replaced.
Put(f, p, st) == [q \in (DOMAIN f) \cup {p} |-> IF q = p THEN st ELSE f[q]]

Init ==
    \E src \in Sources, p \in SourcePaths, occ \in BOOLEAN,
       v \in {"file", "fl"} :
        /\ fs = (p :> src) @@
                (IF occ THEN [q \in OtherPaths(p) |-> OldStore] ELSE <<>>)
        /\ variant = v
        /\ pc = "idle"
        /\ hd = p
        /\ outp = "none"
        /\ given = <<>>
        /\ keys = <<>>
        \* an H5 object is an open file (tests: db.H5(example_hdf5, 'r'))
        /\ hSelf = IF v = "fl" THEN "r" ELSE "closed"
        /\ hOut = "closed"
        /\ fs0 = fs
        /\ hd0 = p
        /\ round = 1
        /\ UtIdle

\* if not common_sub_groups: common_sub_groups = get_unique(...)
CommonKeys(given_in, st) ==
    IF given_in = <<>> THEN GetUniques(st) ELSE {given_in}

\* --------------------------------------------------- restructure_hdf5_file
\* Default output path, open the input 'r', settle the common keys.
FileBegin(given_in, out_in) ==
    /\ pc = "idle" /\ variant = "file"
    /\ outp' = IF out_in = "none" THEN DefaultOutputPath(hd) ELSE out_in
    /\ hSelf' = "r"
    /\ given' = given_in
    /\ keys' \in CommonKeys(given_in, fs[hd])
    /\ pc' = "f_open"
    /\ UNCHANGED <<fs, variant, hd, hOut, fs0, hd0, round>>
    /\ UNCHANGED utVars

\* Variant of FileCreate that refuses a path that exists (mode 'x').
FileCreateExclusive ==
    /\ pc = "f_open"
    /\ IF outp \in DOMAIN fs
       THEN /\ pc' = "error"
            /\ hSelf' = "closed"
            /\ UNCHANGED <<fs, hOut>>
       ELSE /\ pc' = "f_created"
            /\ fs' = Put(fs, outp, EmptyStore)
            /\ hOut' = "w"
            /\ UNCHANGED hSelf
    /\ UNCHANGED <<variant, hd, outp, given, keys, fs0, hd0, round>>
    /\ UNCHANGED utVars

\* with h5py.File(output_path, 'w') as out: creates or truncates the file;
\* HDF5 refuses to truncate a file that is open, the error leaves the outer
\* with block, which closes db_file.
FileCreate ==
    /\ pc = "f_open"
    /\ IF outp = hd
       THEN /\ pc' = "error"
            /\ hSelf' = "closed"
            /\ UNCHANGED <<fs, hOut>>
       ELSE /\ pc' = "f_created"
            /\ fs' = Put(fs, outp, EmptyStore)
            /\ hOut' = "w"
            /\ UNCHANGED hSelf
    /\ UNCHANGED <<variant, hd, outp, given, keys, fs0, hd0, round>>
    /\ UNCHANGED utVars

\* The two loops; an exception leaves both with blocks, which close the
\* files with what was written so far.
FileBuild ==
    /\ pc = "f_created"
    /\ LET acc == RestructureLoop(fs[hd], keys, StartAcc)
       IN /\ fs' = Put(fs, outp, acc.st)
          /\ IF acc.ok
             THEN pc' = "f_built" /\ UNCHANGED <<hSelf, hOut>>
             ELSE pc' = "error" /\ hSelf' = "closed" /\ hOut' = "closed"
    /\ UNCHANGED <<variant, hd, outp, given, keys, fs0, hd0, round>>
    /\ UNCHANGED utVars

\* End of both with blocks; return output_path.
FileExit ==
    /\ pc = "f_built"
    /\ hOut' = "closed"
    /\ hSelf' = "closed"
    /\ pc' = "done"
    /\ UNCHANGED <<fs, variant, hd, outp, given, keys, fs0, hd0, round>>
    /\ UNCHANGED utVars

\* -------------------------------------------------------- H5.restructure_fl
\* Temporary path, settle the common keys.
FlBegin(given_in) ==
    /\ pc = "idle" /\ variant = "fl"
    /\ outp' = TempPath(hd)
    /\ given' = given_in
    /\ keys' \in CommonKeys(given_in, fs[hd])
    /\ pc' = "l_begun"
    /\ UNCHANGED <<fs, variant, hd, hSelf, hOut, fs0, hd0, round>>
    /\ UNCHANGED utVars

\* out = H5(temp_path, 'w')
FlCreate ==
    /\ pc = "l_begun"
    /\ IF outp = hd
       THEN /\ pc' = "error"
            /\ UNCHANGED <<fs, hOut>>
       ELSE /\ pc' = "l_created"
            /\ fs' = Put(fs, outp, EmptyStore)
            /\ hOut' = "w"
    /\ UNCHANGED <<variant, hd, outp, given, keys, hSelf, fs0, hd0, round>>
    /\ UNCHANGED utVars

\* datasets_attrs and the two loops; an exception leaves the method at once.
FlBuild ==
    /\ pc = "l_created"
    /\ LET acc == RestructureLoopFl(fs[hd], keys, StartAcc)
       IN /\ fs' = Put(fs, outp, acc.st)
          /\ pc' = IF acc.ok THEN "l_built" ELSE "error"
    /\ UNCHANGED <<variant, hd, outp, given, keys, hSelf, hOut, fs0, hd0, round>>
    /\ UNCHANGED utVars

\* self.close()
FlCloseSelf ==
    /\ pc = "l_built"
    /\ hSelf' = "closed"
    /\ pc' = "l_self_closed"
    /\ UNCHANGED <<fs, variant, hd, outp, given, keys, hOut, fs0, hd0, round>>
    /\ UNCHANGED utVars

\* Variant of FlCloseOut that leaves the temporary file open.
FlCloseOutSkipped ==
    /\ pc = "l_self_closed"
    /\ pc' = "l_closed"
    /\ UNCHANGED <<fs, variant, hd, outp, given, keys, hSelf, hOut, fs0, hd0, round>>
    /\ UNCHANGED utVars

\* out.close()
FlCloseOut ==
    /\ pc = "l_self_closed"
    /\ hOut' = "closed"
    /\ pc' = "l_closed"
    /\ UNCHANGED <<fs, variant, hd, outp, given, keys, hSelf, fs0, hd0, round>>
    /\ UNCHANGED utVars

\* Variant of FlCopy with the arguments of shutil.copy exchanged.
FlCopyReversed ==
    /\ pc = "l_closed"
    /\ fs' = Put(fs, outp, fs[hd])
    /\ pc' = "l_copied"
    /\ UNCHANGED <<variant, hd, outp, given, keys, hSelf, hOut, fs0, hd0, round>>
    /\ UNCHANGED utVars

\* shutil.copy(temp_path, origin_path)
FlCopy ==
    /\ pc = "l_closed"
    /\ fs' = Put(fs, hd, fs[outp])
    /\ pc' = "l_copied"
    /\ UNCHANGED <<variant, hd, outp, given, keys, hSelf, hOut, fs0, hd0, round>>
    /\ UNCHANGED utVars

\* Variant of FlUnlink that keeps the temporary file.
FlUnlinkKeeping ==
    /\ pc = "l_copied"
    /\ pc' = "l_unlinked"
    /\ UNCHANGED <<fs, variant, hd, outp, given, keys, hSelf, hOut, fs0, hd0, round>>
    /\ UNCHANGED utVars

\* Path.unlink(temp_path)
FlUnlink ==
    /\ pc = "l_copied"
    /\ fs' = Remove(fs, outp)
    /\ pc' = "l_unlinked"
    /\ UNCHANGED <<variant, hd, outp, given, keys, hSelf, hOut, fs0, hd0, round>>
    /\ UNCHANGED utVars

\* self.__init__(origin_path, 'r')
FlReopen ==
    /\ pc = "l_unlinked"
    /\ hSelf' = "r"
    /\ pc' = "done"
    /\ UNCHANGED <<fs, variant, hd, outp, given, keys, hOut, fs0, hd0, round>>
    /\ UNCHANGED utVars

\* --------------------------------------------------------- specifications
Steps ==
    \/ FileCreate
    \/ FileBuild
    \/ FileExit
    \/ FlCreate
    \/ FlBuild
    \/ FlCloseSelf
    \/ FlCloseOut
    \/ FlCopy
    \/ FlUnlink
    \/ FlReopen

\* One call of either function, with any arguments.
Next ==
    \/ \E given_in \in ExplicitLists, out_in \in {"none", ExplicitOutput, hd} :
           FileBegin(given_in, out_in)
    \/ \E given_in \in ExplicitLists : FlBegin(given_in)
    \/ Steps

Spec == Init /\ [][Next]_vars

\* The result of a finished call: the file at output_path, or the file the
\* H5 object is open on.
ResultPath == IF variant = "file" THEN outp ELSE hd

\* A second call, on the result of the first, common keys computed in both.
CallAgain ==
    /\ pc = "done" /\ round = 1
    /\ round' = 2
    /\ hd' = ResultPath
    /\ pc' = "idle"
    /\ UNCHANGED <<fs, variant, outp, given, keys, hSelf, hOut, fs0, hd0>>
    /\ UNCHANGED utVars

NextDouble ==
    \/ \E out_in \in {"none", ExplicitOutput} : FileBegin(<<>>, out_in)
    \/ FlBegin(<<>>)
    \/ Steps
    \/ CallAgain

SpecDouble == Init /\ [][NextDouble]_vars

\* ------------------------------------------------------------------ claims
\* The source store as it was before the call, and the store a finished
\* call leaves as its result.
Src == fs0[hd0]
Result == fs[ResultPath]

Finished == pc = "done" /\ round = 1
Terminal == pc \in {"done", "error"}

Distinct(ks) == \A i, j \in DOMAIN ks : ks[i] = ks[j] => i = j

\* Every root group of st holds an entry for every key of ks.
Complete(st, ks) ==
    \A g \in DOMAIN st : \A k \in Range(ks) : k \in DOMAIN st[g].items

\* list(b.attrs) for v in db.values() for b in v.values(), made unique.
FlUniqueAttrs(st) ==
    UNION {UNION {DOMAIN st[g].items[k].attrs : k \in DOMAIN st[g].items} :
              g \in DOMAIN st}

RootAttrNames(st) == UNION {DOMAIN st[g].attrs : g \in DOMAIN st}

\* C1: a source of N >= 1 root groups, all holding every one of the K distinct
\* common keys, is transposed into a store of exactly K root groups, named
\* by the common keys, each of exactly N entries, named by the source groups.
C1_EntryCount ==
    (Finished /\ DOMAIN Src # {} /\ Distinct(keys) /\ Complete(Src, keys))
    => /\ DOMAIN Result = Range(keys)
       /\ Cardinality(DOMAIN Result) = Len(keys)
       /\ \A k \in DOMAIN Result :
             /\ DOMAIN Result[k].items = DOMAIN Src
             /\ Cardinality(DOMAIN Result[k].items) = Cardinality(DOMAIN Src)

C1_Witness ==
    /\ Finished /\ Distinct(keys) /\ Complete(Src, keys)
    /\ Cardinality(DOMAIN Src) >= 2 /\ Len(keys) >= 2
    /\ DOMAIN Result = Range(keys)

\* C2 as stated: every (group g, entry k) of the source is found, with the
\* same data, at (group k, entry g) of the result.
C2_AllPairsPreserved ==
    Finished =>
        \A g \in DOMAIN Src : \A k \in DOMAIN Src[g].items :
            /\ k \in DOMAIN Result
            /\ g \in DOMAIN Result[k].items
            /\ Result[k].items[g].data = Src[g].items[k].data

\* C2 amended: every (group g, entry k) of the source whose key k is in the
\* common key list is found, with the same data, at (group k, entry g) of
\* the result; the entries under other keys are not in the result.
C2_CommonPairsPreserved ==
    Finished =>
        /\ \A g \in DOMAIN Src : \A k \in DOMAIN Src[g].items \cap Range(keys) :
              /\ k \in DOMAIN Result
              /\ g \in DOMAIN Result[k].items
              /\ Result[k].items[g].data = Src[g].items[k].data
        /\ DOMAIN Result \subseteq Range(keys)

C2_Witness ==
    /\ Finished /\ given # <<>>
    /\ \E g \in DOMAIN Src : \E k \in DOMAIN Src[g].items : k \notin Range(keys)
    /\ \E k \in DOMAIN Result : \E g \in DOMAIN Result[k].items :
           Result[k].items[g].data = Src[g].items[k].data /\ Result[k].items[g].data > 1

\* The attributes of every new entry (k, g) are those of source group g.
EntriesCarryGroupAttrs ==
    \A k \in Range(keys) : \A g \in DOMAIN Src :
        /\ k \in DOMAIN Result
        /\ g \in DOMAIN Result[k].items
        /\ Result[k].items[g].attrs = Src[g].attrs

\* C3 as stated: new entries carry the attributes of the source groups, hence
\* after restructure_fl the attribute names of the first-level datasets are
\* the attribute names of the original root groups.
C3_GroupAttrsToEntries ==
    Finished =>
        /\ EntriesCarryGroupAttrs
        /\ variant = "fl" => FlUniqueAttrs(Result) = RootAttrNames(Src)

\* C3 amended: the same, the equality of the name sets being claimed only
\* when the common key list is not empty.
C3_GroupAttrsToEntriesNonEmpty ==
    Finished =>
        /\ EntriesCarryGroupAttrs
        /\ (variant = "fl" /\ keys # <<>>) =>
              FlUniqueAttrs(Result) = RootAttrNames(Src)

C3_Witness ==
    /\ Finished /\ variant = "fl" /\ Len(keys) >= 2
    /\ \E g \in DOMAIN Src : \E k \in Range(keys) :
           /\ Src[g].attrs # NoAttrs
           /\ Src[g].items[k].attrs # NoAttrs
           /\ Src[g].items[k].attrs # Src[g].attrs
           /\ DOMAIN Src[g].items[k].attrs = DOMAIN Src[g].attrs
           /\ Result[k].items[g].attrs = Src[g].attrs

\* Some source root group has no entry for some key of the common key list.
MissingEntry == \E g \in DOMAIN Src : \E k \in Range(keys) : k \notin DOMAIN Src[g].items

\* C4: when a source root group lacks an entry for a common key, the call
\* never gets past its loops: it ends in an error and never returns normally.
C4_MissingEntryFails ==
    (round = 1 /\ MissingEntry) =>
        /\ pc \in {"f_open", "f_created", "l_begun", "l_created", "error"}
        /\ \A k \in Range(keys) :
              (outp \in DOMAIN fs /\ k \in DOMAIN fs[outp] /\ pc = "error")
              => \A g \in DOMAIN Src :
                    g \in DOMAIN fs[outp][k].items => k \in DOMAIN Src[g].items

C4_Witness ==
    /\ pc = "error" /\ MissingEntry /\ outp # hd
    /\ Distinct(keys)
    /\ \E g \in DOMAIN Src : Complete((g :> Src[g]), keys)

\* C5 as stated: after a failure on a missing entry no partially written
\* store lies at the destination path: the path holds no file, or the file
\* it held before the call.
C5_NoPartialDestination ==
    (round = 1 /\ pc = "error" /\ MissingEntry) =>
        \/ outp \notin DOMAIN fs
        \/ outp \in DOMAIN fs0 /\ fs[outp] = fs0[outp]

WellFormed ==
    /\ Distinct(keys)
    /\ Complete(Src, keys)
    /\ variant = "fl" => Range(keys) \subseteq AllEntryKeys(Src)

C8_SourceNeverMutated ==
    (round = 1 /\ Terminal) => hd0 \in DOMAIN fs /\ fs[hd0] = fs0[hd0]

\* C8 amended: restructure_hdf5_file never changes the source file;
\* H5.restructure_fl leaves it unchanged when it fails and, when it returns
\* normally, has replaced it by the transposed store.
C8_SourceFrame ==
    round = 1 =>
        /\ hd0 \in DOMAIN fs
        /\ variant = "file" => fs[hd0] = fs0[hd0]
        /\ (variant = "fl" /\ pc = "error") => fs[hd0] = fs0[hd0]
        /\ (variant = "fl" /\ pc = "done") =>
              /\ DOMAIN fs[hd0] = Range(keys)
              /\ \A k \in Range(keys) :
                    /\ DOMAIN fs[hd0][k].items = DOMAIN Src
                    /\ \A g \in DOMAIN Src :
                          fs[hd0][k].items[g].data = Src[g].items[k].data

C8_Witness ==
    /\ Finished /\ variant = "fl" /\ Len(keys) >= 2
    /\ Cardinality(DOMAIN Src) >= 2
    /\ fs[hd0] # fs0[hd0]
    /\ DOMAIN fs[hd0] = Range(keys)

\* C9 as stated: when the call has returned or failed, the handles it opened
\* are closed: the output file and, in restructure_hdf5_file, the input file.
C9_HandlesClosedOnExit ==
    (round = 1 /\ Terminal) =>
        /\ hOut = "closed"
        /\ variant = "file" => hSelf = "closed"

\* All root groups of st hold the same entry keys.
SameKeySets(st) ==
    \A g, h \in DOMAIN st : DOMAIN st[g].items = DOMAIN st[h].items

\* Same root groups, same entries in each, same data in each entry.
SameData(a, b) ==
    /\ DOMAIN a = DOMAIN b
    /\ \A g \in DOMAIN a :
          /\ DOMAIN a[g].items = DOMAIN b[g].items
          /\ \A k \in DOMAIN a[g].items : a[g].items[k].data = b[g].items[k].data

FinishedTwice == pc = "done" /\ round = 2

\* C10 as stated: for a source whose root groups all hold the same entry
\* keys, the transposition of its transposition has the groups, entries and
\* data of the source.
C10_DoubleTransposeRestores ==
    (FinishedTwice /\ SameKeySets(Src)) => SameData(Result, Src)

\* C10 amended: the same, for a source whose root groups all hold the same
\* entry keys and at least one.
C10_DoubleTransposeRestoresNonEmpty ==
    (FinishedTwice /\ SameKeySets(Src)
        /\ \A g \in DOMAIN Src : DOMAIN Src[g].items # {})
    => SameData(Result, Src)

C10_Witness ==
    /\ FinishedTwice /\ SameKeySets(Src)
    /\ Cardinality(DOMAIN Src) >= 2
    /\ \A g \in DOMAIN Src : Cardinality(DOMAIN Src[g].items) >= 2
    /\ \E g \in DOMAIN Src : \E k \in DOMAIN Src[g].items : Src[g].items[k].data > 10
    /\ SameData(Result, Src)

\* C11: when no common keys are passed, the key list the call uses holds
\* every entry key of every source root group, nothing else, and each once.
C11_ComputedKeysAreUnion ==
    (round = 1 /\ pc # "idle" /\ given = <<>>) =>
        /\ \A g \in DOMAIN Src : \A k \in DOMAIN Src[g].items :
              \E i \in DOMAIN keys : keys[i] = k
        /\ \A i \in DOMAIN keys : \E g \in DOMAIN Src : keys[i] \in DOMAIN Src[g].items
        /\ \A i, j \in DOMAIN keys : keys[i] = keys[j] => i = j
        /\ Len(keys) = Cardinality(AllEntryKeys(Src))

C11_Witness ==
    /\ round = 1 /\ pc # "idle" /\ given = <<>> /\ Len(keys) >= 2
    /\ \E g, h \in DOMAIN Src :
          /\ g # h
          /\ DOMAIN Src[g].items \cap DOMAIN Src[h].items # {}
          /\ DOMAIN Src[g].items # DOMAIN Src[h].items

\* ------------------------------------------- listing the attribute names
\* h5py enumerates the attribute names of an object in alphabetical order.
AttrNames == <<"data_attribute", "extra_attribute", "model_attribute">>
\* list(b.attrs)
AttrList(attrs) == SelectSeq(AttrNames, LAMBDA n : n \in DOMAIN attrs)

\* Variant of AttrLists that lists the attributes of the root groups.
AttrListsOfGroups(st) ==
    LET gs == SortedNames(DOMAIN st)
    IN [i \in 1..Len(gs) |-> AttrList(st[gs[i]].attrs)]

\* [list(b.attrs) for b in v.values()] for one root group v, as a list of
\* lists, and for v in db.values() the lists of all the root groups.
RECURSIVE AttrListsOf(_, _)
AttrListsOf(v, ks) ==
    IF ks = <<>> THEN <<>>
    ELSE <<AttrList(v.items[Head(ks)].attrs)>> \o AttrListsOf(v, Tail(ks))
AttrLists(st) ==
    LET gs == SortedNames(DOMAIN st)
    IN Flatten([i \in 1..Len(gs) |->
                  AttrListsOf(st[gs[i]], SortedNames(DOMAIN st[gs[i]].items))])

\* H5.get_fl_unique_attrs(db_path): the possible results.
GetFlUniqueAttrs(st) == GetUniquesInListOfLists(AttrLists(st))

\* get_hdf5_first_level_structure(hdf5_path): the file is opened 'r' (an
\* OSError when there is none), listed, and closed by the with statement.
GetHdf5FirstLevelStructure ==
    /\ ret = NoCall /\ variant = "file" /\ pc = "idle"
    /\ \E p \in SourcePaths \cup {ExplicitOutput} :
        /\ args' = [fn |-> "get_hdf5_first_level_structure", hdf5_path |-> p]
        /\ IF p \in DOMAIN fs
           THEN \E m_attrs \in GetFlUniqueAttrs(fs[p]) :
                  ret' = [fn |-> "get_hdf5_first_level_structure",
                          raised |-> "none",
                          store |-> fs[p],
                          m_keys |-> SortedNames(DOMAIN fs[p]),
                          m_attrs |-> m_attrs]
           ELSE ret' = [fn |-> "get_hdf5_first_level_structure",
                        raised |-> "OSError"]
    /\ UNCHANGED <<trVars, files>>

\* db.fl_unique_attrs, db an H5 object open on the file at hd.
FlUniqueAttrsProperty ==
    /\ ret = NoCall /\ variant = "fl" /\ pc = "idle" /\ hSelf = "r"
    /\ args' = [fn |-> "fl_unique_attrs", self |-> hd]
    /\ \E m_attrs \in GetFlUniqueAttrs(fs[hd]) :
          ret' = [fn |-> "fl_unique_attrs", raised |-> "none",
                  store |-> fs[hd], m_attrs |-> m_attrs]
    /\ UNCHANGED <<trVars, files>>

NextList == GetHdf5FirstLevelStructure \/ FlUniqueAttrsProperty
SpecList == Init /\ [][NextList]_vars

\* The listing returned, and the store it was taken from.
Listed == ret.fn \in {"get_hdf5_first_level_structure", "fl_unique_attrs"}
             /\ ret.raised = "none"

\* C12: the listing holds exactly the attribute names found on an entry of
\* a root group, each once (so none found on root groups only), and no file
\* is changed by it.
C12_ListingIsEntryAttrNames ==
    Listed =>
        /\ \A n \in Range(AttrNames) :
              (\E i \in DOMAIN ret.m_attrs : ret.m_attrs[i] = n)
                  <=> \E g \in DOMAIN ret.store :
                        \E k \in DOMAIN ret.store[g].items :
                            n \in DOMAIN ret.store[g].items[k].attrs
        /\ \A i \in DOMAIN ret.m_attrs : ret.m_attrs[i] \in Range(AttrNames)
        /\ \A i, j \in DOMAIN ret.m_attrs :
              ret.m_attrs[i] = ret.m_attrs[j] => i = j
        /\ fs = fs0

\* A name carried by the entries of two root groups is listed, and a root
\* group carries a name no entry carries.
C12_Witness ==
    /\ Listed
    /\ Len(ret.m_attrs) >= 1
    /\ \E g, h \in DOMAIN ret.store :
          /\ g # h
          /\ \E k \in DOMAIN ret.store[g].items, l \in DOMAIN ret.store[h].items :
                /\ ret.m_attrs[1] \in DOMAIN ret.store[g].items[k].attrs
                /\ ret.m_attrs[1] \in DOMAIN ret.store[h].items[l].attrs
    /\ \E g \in DOMAIN ret.store :
          \E n \in DOMAIN ret.store[g].attrs :
              \A i \in DOMAIN ret.m_attrs : ret.m_attrs[i] # n

\* ------------------------------------------------ the default output path
\* File names are sequences of characters; MaxNameLen bounds their length.
MaxNameLen == 3
PathChars == {"a", "b", "."}
FileNames ==
    {n \in UNION {[1..k -> PathChars] : k \in 1..MaxNameLen} :
        n \notin {<<".">>, <<".", ".">>}}
Parents == {"dir", "dir/sub"}
Marker == <<"_", "t", "r">>

\* name.rfind('.'), counted from 1; 0 when there is no dot.
RFindDot(name) ==
    IF \E i \in DOMAIN name : name[i] = "."
    THEN CHOOSE i \in DOMAIN name :
            name[i] = "." /\ \A j \in DOMAIN name : name[j] = "." => j <= i
    ELSE 0
\* pathlib: the name has a suffix if 0 < i < len(name) - 1, i counted from 0.
HasSuffix(name) == 1 < RFindDot(name) /\ RFindDot(name) < Len(name)
PathSuffix(name) ==
    IF HasSuffix(name) THEN SubSeq(name, RFindDot(name), Len(name)) ELSE <<>>
PathStem(name) ==
    IF HasSuffix(name) THEN SubSeq(name, 1, RFindDot(name) - 1) ELSE name

\* s.replace(old, new), old not empty: every occurrence of old, found from
\* the left and not overlapping, is replaced.
RECURSIVE StrReplace(_, _, _)
StrReplace(s, old, new) ==
    IF Len(s) < Len(old) THEN s
    ELSE IF SubSeq(s, 1, Len(old)) = old
         THEN new \o StrReplace(SubSeq(s, Len(old) + 1, Len(s)), old, new)
         ELSE <<Head(s)>> \o StrReplace(Tail(s), old, new)

\* The restructuring is not running.
TrIdle ==
    /\ fs = <<>> /\ variant = "none" /\ pc = "idle" /\ hd = "none"
    /\ outp = "none" /\ given = <<>> /\ keys = <<>>
    /\ hSelf = "closed" /\ hOut = "closed"
    /\ fs0 = <<>> /\ hd0 = "none" /\ round = 1

\* restructure_hdf5_file(hdf5_path) with output_path left None.
InitPath ==
    /\ TrIdle
    /\ \E parent \in Parents, name \in FileNames :
          args = [fn |-> "restructure_hdf5_file",
                  hdf5_path |-> [parent |-> parent, name |-> name]]
    /\ files = <<>>
    /\ ret = NoCall

\* output_path = Path(hd.parent,
\*                    str(hd.name).replace(hd.stem, str(hd.stem + '_tr')))
SetDefaultOutputPath ==
    /\ ret = NoCall /\ args.fn = "restructure_hdf5_file"
    /\ LET hdp == args.hdf5_path
       IN ret' = [fn |-> "restructure_hdf5_file",
                  output_path |->
                     [parent |-> hdp.parent,
                      name |-> StrReplace(hdp.name, PathStem(hdp.name),
                                          PathStem(hdp.name) \o Marker)]]
    /\ UNCHANGED <<trVars, args, files>>

NextPath == SetDefaultOutputPath
SpecPath == InitPath /\ [][NextPath]_vars

DefaultPathSet == ret.fn = "restructure_hdf5_file" /\ args.fn = "restructure_hdf5_file"

\* C13: the default destination lies in the directory of the source, its
\* name is the stem of the source name, the marker '_tr' and the suffix of
\* the source name, and it differs from the source path.
C13_DefaultOutputAppendsMarker ==
    DefaultPathSet =>
        /\ ret.output_path.parent = args.hdf5_path.parent
        /\ ret.output_path.name =
              PathStem(args.hdf5_path.name) \o Marker
                  \o PathSuffix(args.hdf5_path.name)
        /\ ret.output_path # args.hdf5_path

\* What holds of every name: same directory, another path, and the marker
\* after the stem at the start of the name.
C13_DefaultOutputDiffers ==
    DefaultPathSet =>
        /\ ret.output_path.parent = args.hdf5_path.parent
        /\ ret.output_path # args.hdf5_path
        /\ LET st == PathStem(args.hdf5_path.name) \o Marker
           IN /\ Len(ret.output_path.name) >= Len(st)
              /\ SubSeq(ret.output_path.name, 1, Len(st)) = st

\* The stem is found again in the suffix.
C13_Witness ==
    /\ DefaultPathSet
    /\ args.hdf5_path.name = <<"a", ".", "a">>
    /\ ret.output_path.name = <<"a", "_", "t", "r", ".", "a", "_", "t", "r">>

\* ------------------------------------- the attributes of the new root groups
\* C14: after H5.restructure_fl every new root group k carries each
\* attribute (name, value) of the dataset named k in any original root group.
C14_RootGroupsCarryDatasetAttrs ==
    (Finished /\ variant = "fl") =>
        \A k \in DOMAIN Result : \A g \in DOMAIN Src :
            k \in DOMAIN Src[g].items =>
                \A n \in DOMAIN Src[g].items[k].attrs :
                    /\ n \in DOMAIN Result[k].attrs
                    /\ Result[k].attrs[n] = Src[g].items[k].attrs[n]

\* -------------------------------------------------------- save_npz_in_hdf5
\* Number of npz files in the list passed to save_npz_in_hdf5.
MaxFiles == 2
NpzPaths == {"dir/1.npz", "dir/2.npz"}
\* An npz file: array key -> data.
NpzContents == UNION {[K -> {1, 2}] : K \in SUBSET Keys}
NpzLists == UNION {[1..n -> NpzPaths] : n \in 0..MaxFiles}
\* attributes_dict / add_attributes: npz identifier -> {name: value}; <<>>
\* stands for None and for the empty dict, both false in `if`.
AttributesDicts ==
    {[i \in D |-> IF i = 1
                  THEN ("model_attribute" :> 11) @@ ("extra_attribute" :> 5)
                  ELSE ("model_attribute" :> 10 + i)] :
        D \in SUBSET (1..MaxFiles)}

\* Path(npz_files_list[0]).with_suffix('.hdf5'), on the names of the model.
NpzDefaultPath(npz_path) ==
    CASE npz_path = "dir/1.npz" -> "dir/1.hdf5"
      [] npz_path = "dir/2.npz" -> "dir/2.hdf5"
      [] OTHER -> "dir/other.hdf5"
NpzOutputPaths == {ExplicitOutput} \cup {NpzDefaultPath(p) : p \in NpzPaths}

\* for k, v in arrays.items(): grp.create_dataset(k, data=v)
NpzDatasets(arrays) ==
    [k \in DOMAIN arrays |-> [data |-> arrays[k], attrs |-> NoAttrs]]

\* Variant of NpzPathAt that takes the first path of the list.
NpzPathFirst(npz_files_list, model_pos) == npz_files_list[1]
\* for model_pos, npz_path in enumerate(npz_files_list), model_pos from 0.
NpzPathAt(npz_files_list, model_pos) == npz_files_list[model_pos + 1]

\* The loop over the npz files from position model_pos on.  KeyError when
\* a non-empty attributes_dict lacks model_no, an OSError when the npz file
\* does not exist; the group of that position is created before either.
RECURSIVE NpzLoop(_, _, _, _, _)
NpzLoop(npz_files_list, model_pos, attributes_dict, npz, acc) ==
    IF model_pos >= Len(npz_files_list) \/ acc.raised # "none" THEN acc
    ELSE LET model_no == model_pos + 1
             npz_path == NpzPathAt(npz_files_list, model_pos)
             grp == GroupNames[model_no]
             created == CreateGroup(acc.st, grp)
         IN IF attributes_dict # <<>> /\ model_no \notin DOMAIN attributes_dict
            THEN [st |-> created, raised |-> "KeyError"]
            ELSE LET with_attrs ==
                        [created EXCEPT ![grp].attrs =
                            IF attributes_dict # <<>>
                            THEN AttrsUpdate(@, attributes_dict[model_no])
                            ELSE @]
                 IN IF npz_path \notin DOMAIN npz
                    THEN [st |-> with_attrs, raised |-> "OSError"]
                    ELSE NpzLoop(npz_files_list, model_pos + 1,
                                 attributes_dict, npz,
                                 [acc EXCEPT !.st =
                                     [with_attrs EXCEPT ![grp].items =
                                         NpzDatasets(npz[npz_path])]])

\* Some npz files exist; the output directory may hold older stores.
InitNpz ==
    /\ TrIdle
    /\ args = NoCall /\ ret = NoCall
    /\ \E P \in SUBSET NpzPaths : files \in [P -> NpzContents]

\* The call of either function: the default path from the first list member
\* (IndexError on an empty list), the output opened 'w', the loop.
SaveNpz(fn, npz_files_list, hdf5_path, attributes_dict) ==
    /\ args = NoCall
    /\ args' = [fn |-> fn, npz_files_list |-> npz_files_list,
                hdf5_path |-> hdf5_path, attributes_dict |-> attributes_dict]
    /\ IF hdf5_path = "None" /\ npz_files_list = <<>>
       THEN /\ ret' = [fn |-> fn, raised |-> "IndexError", hdf5_path |-> "None"]
            /\ UNCHANGED <<fs, hOut>>
       ELSE LET path == IF hdf5_path = "None"
                        THEN NpzDefaultPath(npz_files_list[1])
                        ELSE hdf5_path
                res == NpzLoop(npz_files_list, 0, attributes_dict, files,
                               [st |-> EmptyStore, raised |-> "none"])
            IN /\ fs' = Put(fs, path, res.st)
               /\ ret' = [fn |-> fn, raised |-> res.raised, hdf5_path |-> path]
               \* H5.save_npz_in_hdf5 returns the open H5 object, and leaves
               \* it open when the loop fails as well
               /\ hOut' = IF fn = "H5.save_npz_in_hdf5" THEN "w" ELSE "closed"
    /\ UNCHANGED <<variant, pc, hd, outp, given, keys, hSelf, fs0, hd0, round,
                   files>>

\* An older store lies at a path of the output directory.
NpzOlderStore ==
    /\ args = NoCall /\ fs = <<>>
    /\ \E p \in NpzOutputPaths : fs' = (p :> OldStore)
    /\ UNCHANGED <<variant, pc, hd, outp, given, keys, hSelf, hOut, fs0, hd0,
                   round, utVars>>

SaveNpzInHdf5 ==
    \E l \in NpzLists, p \in {"None", ExplicitOutput}, a \in AttributesDicts :
        SaveNpz("save_npz_in_hdf5", l, p, a)
H5SaveNpzInHdf5 ==
    \E l \in NpzLists, p \in {"None", ExplicitOutput}, a \in AttributesDicts :
        SaveNpz("H5.save_npz_in_hdf5", l, p, a)

NextNpz == NpzOlderStore \/ SaveNpzInHdf5 \/ H5SaveNpzInHdf5
SpecNpz == InitNpz /\ [][NextNpz]_vars

NpzSaved == ret.fn \in {"save_npz_in_hdf5", "H5.save_npz_in_hdf5"}
               /\ ret.raised = "none"

\* C15: a completed save_npz_in_hdf5 of N files leaves a store with the root
\* groups '1'..'N'; group str(i) holds the arrays of the i-th file, same keys
\* and data, and the attributes under key i of a given attributes dictionary.
C15_NpzGroupsInListOrder ==
    NpzSaved =>
        LET st == fs[ret.hdf5_path]
            list == args.npz_files_list
        IN /\ DOMAIN st = {GroupNames[i] : i \in 1..Len(list)}
           /\ \A i \in 1..Len(list) :
                LET grp == st[GroupNames[i]]
                    arrays == files[list[i]]
                IN /\ list[i] \in DOMAIN files
                   /\ DOMAIN grp.items = DOMAIN arrays
                   /\ \A k \in DOMAIN arrays : grp.items[k].data = arrays[k]
                   /\ args.attributes_dict # <<>> =>
                         grp.attrs = args.attributes_dict[i]
                   /\ args.attributes_dict = <<>> => grp.attrs = NoAttrs

\* Two files with different arrays, attributes given, an older store replaced.
C15_Witness ==
    /\ NpzSaved
    /\ Len(args.npz_files_list) = 2
    /\ files[args.npz_files_list[1]] # files[args.npz_files_list[2]]
    /\ args.attributes_dict # <<>>
    /\ args.hdf5_path = "None"
    /\ "1" \in DOMAIN fs[ret.hdf5_path] /\ "old" \notin DOMAIN fs[ret.hdf5_path]

\* ---------------------------------------------------- save_dataframe_safely
\* The three versions: databases_tools.save_dataframe_safely, the one of
\* sample/databases_tools.py and the older filesystem_tools.dataframe_safe_save.
SaveFns == {"save_dataframe_safely", "sample.save_dataframe_safely",
            "dataframe_safe_save"}
CsvSuffix == <<".", "c", "s", "v">>
\* The file names passed as output_csv (all in one directory).
CsvNames == {<<"a">>, <<"a">> \o CsvSuffix, <<"a", ".", "b">>,
             <<"b">> \o CsvSuffix}
Frames == {"d1", "d2"}

\* Path(name).with_suffix(suffix): the suffix of the name is replaced, or
\* the new one appended to a name without suffix.
WithSuffix(name, suffix) == PathStem(name) \o suffix

\* The path the version works on: dataframe_safe_save uses output_csv as is.
CsvTarget(fn, output_csv) ==
    IF fn = "dataframe_safe_save" THEN output_csv
    ELSE WithSuffix(output_csv, CsvSuffix)

\* Variant of MayWrite that ignores the existing file.
MayWriteAlways(exists, overwrite) == TRUE
\* to_csv is reached if the file does not exist, or if overwrite is set.
MayWrite(exists, overwrite) == ~exists \/ overwrite

\* A csv file written by other means may exist.
InitCsv ==
    /\ TrIdle
    /\ args = NoCall /\ ret = NoCall
    /\ files \in {<<>>, (<<"a">> \o CsvSuffix) :> "d0"}

\* One call.  ret records what the call found: the path it worked on and the
\* files before it.  The version of sample/ ends in `return output_data`, a
\* name it never binds: NameError, after the file was dealt with.
SaveDataframeSafely(fn, data_frame, output_csv, overwrite) ==
    LET path == CsvTarget(fn, output_csv)
        exists == path \in DOMAIN files
    IN /\ args' = [fn |-> fn, data_frame |-> data_frame,
                   output_csv |-> output_csv, overwrite |-> overwrite]
       /\ files' = IF MayWrite(exists, overwrite)
                   THEN Put(files, path, data_frame)
                   ELSE files
       /\ ret' = [fn |-> fn,
                  raised |-> IF fn = "sample.save_dataframe_safely"
                             THEN "NameError" ELSE "none",
                  path |-> path, existed |-> exists, before |-> files]
       /\ UNCHANGED trVars

SaveCsv ==
    \E fn \in SaveFns, d \in Frames, n \in CsvNames, o \in BOOLEAN :
        SaveDataframeSafely(fn, d, n, o)

NextCsv == SaveCsv
SpecCsv == InitCsv /\ [][NextCsv]_vars

CsvCalled == ret.fn \in SaveFns

OldPrefix == <<"o", "l", "d", "_">>
\* The file names passed as file_path (all in one directory): without and
\* with suffix, with a dot in the stem, and a hidden file.
ManagedNames == {<<"a">>, <<"a", ".", "b">>, <<"a", ".", "b", ".", "c">>,
                 <<".", "b">>}
Contents == {"v1", "v2", "v3"}

\* modify_filename_in_path(file_path, new_name, added, prefix), on the file
\* name; the parent directory is kept.  <<>> stands for None.
ModifyFilenameInPath(name, new_name, added, prefix) ==
    LET base == IF new_name = <<>> THEN PathStem(name) ELSE new_name
        modified == IF added = <<>> THEN base
                    ELSE IF prefix THEN added \o base ELSE base \o added
    IN WithSuffix(modified, PathSuffix(name))

OldVersionFile(name) == ModifyFilenameInPath(name, <<>>, OldPrefix, TRUE)

\* Variant of OldVersionCopy that renews the backup whenever the file exists.
OldVersionCopyRenewing(fls, file_path, old_version_file) ==
    IF file_path \in DOMAIN fls
    THEN Put(fls, old_version_file, fls[file_path])
    ELSE IF old_version_file \in DOMAIN fls
    THEN Put(fls, file_path, fls[old_version_file])
    ELSE fls
\* The files after the if / elif / else of manage_old_version_file.
OldVersionCopy(fls, file_path, old_version_file) ==
    IF old_version_file \in DOMAIN fls
    THEN Put(fls, file_path, fls[old_version_file])
    ELSE IF file_path \in DOMAIN fls
    THEN Put(fls, old_version_file, fls[file_path])
    ELSE fls

\* The file of interest exists or not; there is no backup yet.  args keeps
\* the path and, in `first`, the content the file had at the first call made
\* while it existed.
InitOld ==
    /\ TrIdle
    /\ \E n \in ManagedNames :
          /\ args = [fn |-> "manage_old_version_file", file_path |-> n,
                     first |-> "unset"]
          /\ files \in {<<>>} \cup {n :> c : c \in Contents}
    /\ ret = NoCall

ManageOldVersionFile ==
    LET file_path == args.file_path
        old_version_file == OldVersionFile(file_path)
    IN /\ args.fn = "manage_old_version_file"
       /\ files' = OldVersionCopy(files, file_path, old_version_file)
       /\ ret' = [fn |-> "manage_old_version_file",
                  output |-> IF old_version_file \in DOMAIN files
                                \/ file_path \in DOMAIN files
                             THEN file_path ELSE <<>>,
                  before |-> files]
       /\ args' = [args EXCEPT !.first =
                      IF @ = "unset" /\ file_path \in DOMAIN files
                      THEN files[file_path] ELSE @]
       /\ UNCHANGED trVars

\* The user (or the program) writes the file of interest.
ModifyManagedFile ==
    /\ args.fn = "manage_old_version_file"
    /\ \E c \in Contents : files' = Put(files, args.file_path, c)
    /\ ret' = NoCall
    /\ UNCHANGED <<trVars, args>>

\* The file of interest is deleted.
DeleteManagedFile ==
    /\ args.fn = "manage_old_version_file"
    /\ args.file_path \in DOMAIN files
    /\ files' = Remove(files, args.file_path)
    /\ ret' = NoCall
    /\ UNCHANGED <<trVars, args>>

NextOld == ManageOldVersionFile \/ ModifyManagedFile \/ DeleteManagedFile
SpecOld == InitOld /\ [][NextOld]_vars

JustManaged == ret.fn = "manage_old_version_file"

\* C17: the 'old_' file, once there, always holds the content the file had
\* at the first call made while it existed; right after a call that returns
\* a path the file and the 'old_' file have the same content; a call that
\* finds neither file returns None and creates nothing.
C17_StableBackup ==
    args.fn = "manage_old_version_file" =>
        LET p == args.file_path
            old == OldVersionFile(p)
        IN /\ old # p
           /\ old \in DOMAIN files =>
                 (args.first \in Contents /\ files[old] = args.first)
           /\ (JustManaged /\ ret.output # <<>>) =>
                 /\ ret.output = p
                 /\ p \in DOMAIN files /\ old \in DOMAIN files
                 /\ files[p] = files[old]
           /\ (JustManaged /\ p \notin DOMAIN ret.before
                 /\ old \notin DOMAIN ret.before) =>
                 (ret.output = <<>> /\ files = <<>>)

\* The file was modified after the backup was made, and a call restored it;
\* the name has a dot in its stem.
C17_Witness ==
    /\ JustManaged
    /\ args.file_path = <<"a", ".", "b", ".", "c">>
    /\ OldVersionFile(args.file_path) = OldPrefix \o <<"a", ".", "c">>
    /\ OldVersionFile(args.file_path) \in DOMAIN ret.before
    /\ args.file_path \in DOMAIN ret.before
    /\ ret.before[args.file_path] # args.first
    /\ files[args.file_path] = args.first

\* -------------------------------------------------- extract_config_from_cfg
\* Section and option names of a cfg file, in the order of the file.
CfgSections == <<"PARAMETRIC_VARIABLES", "DATABASE">>
CfgOptions == <<"GUI", "Folder">>
\* Option texts: those of tests/test_filesystem_tools.py, and a bare word
\* and a relative path.
CfgTexts == {"0", "[-0.05]", "'C:/abaqus_results/'", "C:/abaqus_results/",
             "''", "results", "home/u"}

\* k.lower()
Lower(k) == CASE k = "GUI" -> "gui" [] k = "Folder" -> "folder" [] OTHER -> k

\* ast.literal_eval(value) on the option texts: the object of a literal;
\* SyntaxError for a text that is no Python expression; ValueError for an
\* expression that is not a literal (a name, a division of names).
LiteralEval(value) ==
    CASE value = "0" -> [raised |-> "none", obj |-> [type |-> "int", v |-> "0"]]
      [] value = "[-0.05]" ->
            [raised |-> "none",
             obj |-> [type |-> "list of float", v |-> "-0.05"]]
      [] value = "'C:/abaqus_results/'" ->
            [raised |-> "none",
             obj |-> [type |-> "str", v |-> "C:/abaqus_results/"]]
      [] value = "''" -> [raised |-> "none", obj |-> [type |-> "str", v |-> ""]]
      [] value = "C:/abaqus_results/" -> [raised |-> "SyntaxError"]
      [] value = "results" -> [raised |-> "ValueError"]
      [] value = "home/u" -> [raised |-> "ValueError"]
      [] OTHER -> [raised |-> "SyntaxError"]

\* try: literal_eval(value); except SyntaxError / TypeError: value
Converted(value) ==
    LET r == LiteralEval(value)
    IN IF r.raised \in {"SyntaxError", "TypeError"}
       THEN [raised |-> "none", obj |-> [type |-> "str", v |-> value]]
       ELSE r

\* config_dict: the options of the sections merged in file order, a later
\* section overriding an equal key of an earlier one.
RECURSIVE ConfigDict(_, _)
ConfigDict(cfg, sections) ==
    IF sections = <<>> THEN <<>>
    ELSE LET rest == ConfigDict(cfg, Tail(sections))
             sec == IF Head(sections) \in DOMAIN cfg
                    THEN cfg[Head(sections)] ELSE <<>>
             here == [k \in {Lower(o) : o \in DOMAIN sec} |->
                        sec[CHOOSE o \in DOMAIN sec : Lower(o) = k]]
         IN [k \in DOMAIN here \cup DOMAIN rest |->
                IF k \in DOMAIN rest THEN rest[k] ELSE here[k]]

\* A cfg file: section -> (option -> text).
CfgFiles ==
    UNION {[S -> UNION {[O -> CfgTexts] : O \in SUBSET Range(CfgOptions)}] :
              S \in SUBSET Range(CfgSections)}

InitCfg ==
    /\ TrIdle
    /\ args = [fn |-> "extract_config_from_cfg", cfg_path |-> "input.cfg"]
    /\ \E cfg \in CfgFiles : files = ("input.cfg" :> cfg)
    /\ ret = NoCall

\* The call: an exception of the loop that is not handled ends it.
ExtractConfigFromCfg ==
    /\ ret = NoCall /\ args.fn = "extract_config_from_cfg"
    /\ LET config_dict == ConfigDict(files[args.cfg_path], CfgSections)
           conv == [k \in DOMAIN config_dict |-> Converted(config_dict[k])]
       IN IF \E k \in DOMAIN conv : conv[k].raised # "none"
          THEN ret' = [fn |-> "extract_config_from_cfg",
                       raised |-> conv[CHOOSE k \in DOMAIN conv :
                                          conv[k].raised # "none"].raised,
                       output_data |-> <<>>]
          ELSE ret' = [fn |-> "extract_config_from_cfg", raised |-> "none",
                       output_data |-> [k \in DOMAIN conv |-> conv[k].obj]]
    /\ UNCHANGED <<trVars, args, files>>

NextCfg == ExtractConfigFromCfg
SpecCfg == InitCfg /\ [][NextCfg]_vars

\* The texts that are Python literals, and the objects they denote.
CfgLiterals == {"0", "[-0.05]", "'C:/abaqus_results/'", "''"}

\* C18: the call returns, for every option of every section (keys in lower
\* case), the object of a text that is a Python literal and the text itself
\* otherwise; no text that is not a literal makes it raise.
C18_LiteralsOrRawText ==
    ret.fn = "extract_config_from_cfg" =>
        LET cfg == files[args.cfg_path]
        IN /\ ret.raised = "none"
           /\ \A sec \in DOMAIN cfg : \A o \in DOMAIN cfg[sec] :
                 Lower(o) \in DOMAIN ret.output_data
           /\ \A k \in DOMAIN ret.output_data :
                 \E sec \in DOMAIN cfg : \E o \in DOMAIN cfg[sec] :
                    /\ Lower(o) = k
                    /\ ret.output_data[k] =
                          IF cfg[sec][o] \in CfgLiterals
                          THEN LiteralEval(cfg[sec][o]).obj
                          ELSE [type |-> "str", v |-> cfg[sec][o]]

\* ---------------------------------------------------- sort_strings_by_digit
\* Strings are sequences of characters, of length 1..MaxStrLen; the lists
\* passed hold up to MaxListLen of them.
MaxStrLen == 2
MaxListLen == 2
\* A letter, two decimal digits, and SUPERSCRIPT TWO (U+00B2, written
\* "sup2"), for which str.isdigit() is true and which \d does not match.
SortChars == {"a", "1", "2", "sup2"}
SortStrings == UNION {[1..n -> SortChars] : n \in 1..MaxStrLen}
SortLists == UNION {[1..n -> SortStrings] : n \in 0..MaxListLen}

\* The code point of a character: strings are compared by code points.
Ord(c) == CASE c = "1" -> 49 [] c = "2" -> 50 [] c = "a" -> 97 [] OTHER -> 178
\* c.isdigit(), and whether \d matches c.
CharIsDigit(c) == c \in {"1", "2", "sup2"}
MatchesD(c) == c \in {"1", "2"}
DigitValue(c) == IF c = "1" THEN 1 ELSE 2

\* x.isdigit(): not empty and every character a digit.
StrIsDigit(x) == x # <<>> /\ \A i \in DOMAIN x : CharIsDigit(x[i])
\* int(x) raises ValueError unless x is a run of decimal digits.
IntRaises(x) == x = <<>> \/ \E i \in DOMAIN x : ~MatchesD(x[i])
RECURSIVE IntOf(_)
IntOf(x) ==
    IF x = <<>> THEN 0
    ELSE 10 * IntOf(SubSeq(x, 1, Len(x) - 1)) + DigitValue(x[Len(x)])

\* The length of the longest prefix of x whose characters all (not) match \d.
RECURSIVE RunLen(_, _)
RunLen(x, digits) ==
    IF x = <<>> \/ MatchesD(Head(x)) # digits THEN 0
    ELSE 1 + RunLen(Tail(x), digits)

\* re.split(r'(\d+)', x): the runs between the matches and the matches, in
\* turn; the first and the last run are between matches, and may be empty.
RECURSIVE ReSplit(_)
ReSplit(x) ==
    LET n == RunLen(x, FALSE)
        rest == SubSeq(x, n + 1, Len(x))
        m == RunLen(rest, TRUE)
    IN IF rest = <<>> THEN <<SubSeq(x, 1, n)>>
       ELSE <<SubSeq(x, 1, n), SubSeq(rest, 1, m)>>
               \o ReSplit(SubSeq(rest, m + 1, Len(rest)))

\* re.findall(r'\d+', x): the matches alone.
FindAllDigits(x) ==
    LET runs == ReSplit(x)
    IN [i \in 1..(Len(runs) \div 2) |-> runs[2 * i]]

\* Variant of SortKey that leaves the runs of digits as strings.
SortKeyOfStrings(x) ==
    LET runs == ReSplit(x)
    IN [i \in DOMAIN runs |-> [type |-> "str", v |-> runs[i]]]
\* [int(c) if c.isdigit() else c for c in re.split(r'(\d+)', x)]
SortKey(x) ==
    LET runs == ReSplit(x)
    IN [i \in DOMAIN runs |->
          IF StrIsDigit(runs[i]) THEN [type |-> "int", v |-> IntOf(runs[i])]
          ELSE [type |-> "str", v |-> runs[i]]]
\* The key function raises ValueError on x.
SortKeyRaises(x) ==
    \E i \in DOMAIN ReSplit(x) :
        StrIsDigit(ReSplit(x)[i]) /\ IntRaises(ReSplit(x)[i])

\* a < b for strings: by the code points of the first difference, a proper
\* prefix first.
RECURSIVE StrLess(_, _)
StrLess(a, b) ==
    IF b = <<>> THEN FALSE
    ELSE IF a = <<>> THEN TRUE
    ELSE IF Head(a) # Head(b) THEN Ord(Head(a)) < Ord(Head(b))
    ELSE StrLess(Tail(a), Tail(b))

\* e == f and e < f for the members of a key; < between an int and a str
\* raises TypeError.
ElemEq(e, f) == e.type = f.type /\ e.v = f.v
ElemLess(e, f) ==
    IF e.type # f.type THEN "TypeError"
    ELSE IF e.type = "int" THEN (IF e.v < f.v THEN "lt" ELSE "no")
    ELSE IF StrLess(e.v, f.v) THEN "lt" ELSE "no"

\* k1 < k2 for lists: decided by the first members that are not equal, else
\* by the lengths.  "lt", "no" or "TypeError".
RECURSIVE ListLess(_, _)
ListLess(k1, k2) ==
    IF k2 = <<>> THEN "no"
    ELSE IF k1 = <<>> THEN "lt"
    ELSE IF ElemEq(Head(k1), Head(k2)) THEN ListLess(Tail(k1), Tail(k2))
    ELSE ElemLess(Head(k1), Head(k2))

\* list.sort(key=...) is stable: a member is placed after the members that
\* are not greater than it.
RECURSIVE SortByKey(_, _)
SortByKey(l, acc) ==
    IF l = <<>> THEN acc
    ELSE LET x == Head(l)
             n == Cardinality({i \in DOMAIN acc :
                     ListLess(SortKey(x), SortKey(acc[i])) # "lt"})
         IN SortByKey(Tail(l),
                SubSeq(acc, 1, n) \o <<x>> \o SubSeq(acc, n + 1, Len(acc)))

\* A comparison of two keys of the list raises TypeError.
SortRaisesTypeError(l) ==
    \E i, j \in DOMAIN l : ListLess(SortKey(l[i]), SortKey(l[j])) = "TypeError"

\* The call sort_strings_by_digit(paths_list) of either module.
InitSort ==
    /\ TrIdle
    /\ \E l \in SortLists : args = [fn |-> "sort_strings_by_digit", paths_list |-> l]
    /\ files = <<>>
    /\ ret = NoCall

\* pymiscell/strings_tools.py: paths_list[0] raises IndexError on an empty
\* list, which is caught; the keys are computed, then compared.
SortStringsByDigit ==
    /\ ret = NoCall /\ args.fn = "sort_strings_by_digit"
    /\ LET paths_list == args.paths_list
           fn == "pymiscell.sort_strings_by_digit"
       IN ret' =
            IF paths_list = <<>>
            THEN [fn |-> fn, raised |-> "none", output |-> paths_list]
            ELSE IF \E i \in DOMAIN paths_list : SortKeyRaises(paths_list[i])
            THEN [fn |-> fn, raised |-> "ValueError", output |-> <<>>]
            ELSE IF SortRaisesTypeError(paths_list)
            THEN [fn |-> fn, raised |-> "TypeError", output |-> <<>>]
            ELSE [fn |-> fn, raised |-> "none",
                  output |-> SortByKey(paths_list, <<>>)]
    /\ UNCHANGED <<trVars, args, files>>

\* str_extract_last_int / extract_number_from_str:
\* int(re.findall(r'\d+', x)[-1]); IndexError without a match.
ExtractNumberFromStr(x) == IntOf(FindAllDigits(x)[Len(FindAllDigits(x))])

\* strings_tools.py: sorted(zip(numbers, paths_list)), the pairs compared by
\* number and then by string; IndexError of the extraction is caught.
RECURSIVE SortByNumber(_, _)
SortByNumber(l, acc) ==
    IF l = <<>> THEN acc
    ELSE LET x == Head(l)
             nx == ExtractNumberFromStr(x)
             n == Cardinality({i \in DOMAIN acc :
                     LET ny == ExtractNumberFromStr(acc[i])
                     IN ~(nx < ny \/ (nx = ny /\ StrLess(x, acc[i])))})
         IN SortByNumber(Tail(l),
                SubSeq(acc, 1, n) \o <<x>> \o SubSeq(acc, n + 1, Len(acc)))

OldSortStringsByDigit ==
    /\ ret = NoCall /\ args.fn = "sort_strings_by_digit"
    /\ LET paths_list == args.paths_list
           fn == "strings_tools.sort_strings_by_digit"
       IN ret' =
            IF \E i \in DOMAIN paths_list : FindAllDigits(paths_list[i]) = <<>>
            THEN [fn |-> fn, raised |-> "none", output |-> paths_list]
            ELSE [fn |-> fn, raised |-> "none",
                  output |-> SortByNumber(paths_list, <<>>)]
    /\ UNCHANGED <<trVars, args, files>>

NextSort == SortStringsByDigit \/ OldSortStringsByDigit
SpecSort == InitSort /\ [][NextSort]_vars

SortCalled == ret.fn \in {"pymiscell.sort_strings_by_digit",
                          "strings_tools.sort_strings_by_digit"}
\* x contains a digit.
HasDigit(x) == \E i \in DOMAIN x : CharIsDigit(x[i])

\* C19: when digits are not found in each of the strings of the list, the
\* call returns the list as it was passed, same members in the same order.
C19_NoDigitsKeepsList ==
    (SortCalled /\ \E i \in DOMAIN args.paths_list : ~HasDigit(args.paths_list[i]))
        => (ret.raised = "none" /\ ret.output = args.paths_list)

\* Natural order: the runs of x and y are compared in turn, the runs of
\* decimal digits (at the even places) by their value and the others as
\* strings; x is less than y at the first difference, or as a proper prefix.
RECURSIVE RunsLess(_, _, _)
RunsLess(r1, r2, place) ==
    IF r2 = <<>> THEN FALSE
    ELSE IF r1 = <<>> THEN TRUE
    ELSE IF place % 2 = 0
    THEN IF IntOf(Head(r1)) # IntOf(Head(r2))
         THEN IntOf(Head(r1)) < IntOf(Head(r2))
         ELSE RunsLess(Tail(r1), Tail(r2), place + 1)
    ELSE IF Head(r1) # Head(r2) THEN StrLess(Head(r1), Head(r2))
         ELSE RunsLess(Tail(r1), Tail(r2), place + 1)
NaturalLess(x, y) == RunsLess(ReSplit(x), ReSplit(y), 1)

Count(l, x) == Cardinality({i \in DOMAIN l : l[i] = x})
NewSortCalled == ret.fn = "pymiscell.sort_strings_by_digit"
HasDecimalDigit(x) == \E i \in DOMAIN x : MatchesD(x[i])

\* What C20 says of the result of a call.
NaturalOrderResult ==
    /\ ret.raised = "none"
    /\ Len(ret.output) = Len(args.paths_list)
    /\ \A i \in DOMAIN ret.output :
          Count(ret.output, ret.output[i]) = Count(args.paths_list, ret.output[i])
    /\ \A i, j \in DOMAIN ret.output :
          i < j => ~NaturalLess(ret.output[j], ret.output[i])
    /\ \A i, j \in DOMAIN args.paths_list :
          \A n \in DOMAIN SortKey(args.paths_list[i]) :
              n \in DOMAIN SortKey(args.paths_list[j]) =>
                  SortKey(args.paths_list[i])[n].type
                      = SortKey(args.paths_list[j])[n].type

\* C20: for a non-empty list of strings that all contain digits, the
\* pymiscell sort_strings_by_digit returns a permutation of the list in
\* natural order (digit runs by value: '2' before '12'), and no comparison
\* meets an integer and a string.
C20_NaturalOrder ==
    (NewSortCalled /\ args.paths_list # <<>>
        /\ \A i \in DOMAIN args.paths_list : HasDecimalDigit(args.paths_list[i]))
        => NaturalOrderResult

\* The same for the lists whose digits are all decimal digits.
C20_NaturalOrderOfDecimalDigits ==
    (NewSortCalled /\ args.paths_list # <<>>
        /\ \A i \in DOMAIN args.paths_list :
              /\ HasDecimalDigit(args.paths_list[i])
              /\ \A n \in DOMAIN args.paths_list[i] :
                    args.paths_list[i][n] # "sup2")
        => NaturalOrderResult

\* '12' and '2' were passed in this order and came back as '2', '12'.
C20_DecimalWitness ==
    /\ NewSortCalled
    /\ args.paths_list = <<<<"1", "2">>, <<"2">>>>
    /\ ret.raised = "none"
    /\ ret.output = <<<<"2">>, <<"1", "2">>>>

\* ------------------------------------------------------------ generate_primes
\* The largest amount of primes asked for.
MaxAmount == 10

\* int(number ** 0.5): the integer part of the square root.
ISqrt(n) == CHOOSE r \in 0..n : r * r <= n /\ (r + 1) * (r + 1) > n

\* for num in range(2, int(number ** 0.5) + 1): if number % num == 0: ...
Primeness(number) == \A num \in 2..ISqrt(number) : number % num # 0

InitPrimes ==
    /\ TrIdle
    /\ \E amount \in 0..MaxAmount : args = [fn |-> "generate_primes", amount |-> amount]
    /\ files = <<>>
    /\ ret = NoCall

\* output_list = [2]; number = 3
PrimesBegin ==
    /\ args.fn = "generate_primes" /\ ret = NoCall
    /\ ret' = [fn |-> "generate_primes", pc |-> "while",
               output_list |-> <<2>>, number |-> 3]
    /\ UNCHANGED <<trVars, args, files>>

\* One turn of the while loop: the candidate is tested and appended if it
\* is prime, and the next candidate follows.
PrimesStep ==
    /\ ret.fn = "generate_primes" /\ ret.pc = "while"
    /\ Len(ret.output_list) < args.amount
    /\ ret' = [ret EXCEPT
                 !.output_list = IF Primeness(ret.number)
                                 THEN Append(@, ret.number) ELSE @,
                 !.number = @ + 1]
    /\ UNCHANGED <<trVars, args, files>>

\* The loop condition fails: return output_list.
PrimesReturn ==
    /\ ret.fn = "generate_primes" /\ ret.pc = "while"
    /\ ~(Len(ret.output_list) < args.amount)
    /\ ret' = [ret EXCEPT !.pc = "returned"]
    /\ UNCHANGED <<trVars, args, files>>

NextPrimes == PrimesBegin \/ PrimesStep \/ PrimesReturn
SpecPrimes == InitPrimes /\ [][NextPrimes]_vars

PrimesReturned == ret.fn = "generate_primes" /\ ret.pc = "returned"
IsPrime(n) == n > 1 /\ \A d \in 2..(n - 1) : n % d # 0

\* The list holds the first Len(l) primes, in ascending order.
FirstPrimes(l) ==
    /\ \A i, j \in DOMAIN l : i < j => l[i] < l[j]
    /\ \A i \in DOMAIN l : IsPrime(l[i])
    /\ l # <<>> =>
          \A n \in 2..l[Len(l)] : IsPrime(n) => \E i \in DOMAIN l : l[i] = n

\* C21: for every amount >= 0 the result has exactly `amount` members, is
\* strictly ascending, holds primes only and omits no prime below its last.
C21_FirstPrimes ==
    PrimesReturned =>
        (Len(ret.output_list) = args.amount /\ FirstPrimes(ret.output_list))

\* The same for the amounts of at least 1.
C21_FirstPrimesPositiveAmount ==
    (PrimesReturned /\ args.amount >= 1) =>
        (Len(ret.output_list) = args.amount /\ FirstPrimes(ret.output_list))

\* Composite candidates, a square among them, were passed over.
C21_PositiveWitness ==
    /\ PrimesReturned /\ args.amount = 5
    /\ ret.output_list = <<2, 3, 5, 7, 11>>

\* --------------------------------------------------------------- renumber_file
\* The paths passed: a directory, with or without a digit in its name, and
\* a file name of letters and digits, of length 1..MaxNameLen.
RenumberDirs == {<<"d">>, <<"d", "1">>}
RenumberNames == UNION {[1..n -> {"a", "1", "2"}] : n \in 1..MaxNameLen}
Deltas == {-1, 1}
PathOf(dir, name) == dir \o <<"/">> \o name

\* str(n) for n >= 0.
DecDigits == <<"0", "1", "2", "3", "4", "5", "6", "7", "8", "9">>
RECURSIVE StrOfInt(_)
StrOfInt(n) ==
    IF n < 10 THEN <<DecDigits[n + 1]>>
    ELSE StrOfInt(n \div 10) \o <<DecDigits[(n % 10) + 1]>>

\* Variant of RenumberedPath that replaces the last occurrence only.
RECURSIVE StrReplaceLast(_, _, _)
StrReplaceLast(s, old, new) ==
    IF Len(s) < Len(old) THEN s
    ELSE IF SubSeq(s, Len(s) - Len(old) + 1, Len(s)) = old
         THEN SubSeq(s, 1, Len(s) - Len(old)) \o new
         ELSE StrReplaceLast(SubSeq(s, 1, Len(s) - 1), old, new) \o <<s[Len(s)]>>
RenumberedPathLast(path, number, delta) ==
    StrReplaceLast(path, StrOfInt(number), StrOfInt(number + delta))
\* str(file_path).replace(str(number), str(number + delta))
RenumberedPath(path, number, delta) ==
    StrReplace(path, StrOfInt(number), StrOfInt(number + delta))

\* The directory part of a path string: up to the last "/".
RECURSIVE DirOf(_)
DirOf(path) ==
    IF path = <<>> THEN <<>>
    ELSE IF path[Len(path)] = "/" THEN SubSeq(path, 1, Len(path) - 1)
    ELSE DirOf(SubSeq(path, 1, Len(path) - 1))

\* One file exists, in its directory, the only directory there is.
InitRenumber ==
    /\ TrIdle
    /\ \E dir \in RenumberDirs, name \in RenumberNames, delta \in Deltas :
          /\ args = [fn |-> "renumber_file", file_path |-> PathOf(dir, name),
                     delta |-> delta]
          /\ files = (PathOf(dir, name) :> "content")
    /\ ret = NoCall

\* The call: IndexError when the path holds no digit; rename fails with
\* FileNotFoundError when the directory of the new path does not exist.
RenumberFile ==
    /\ args.fn = "renumber_file" /\ ret = NoCall
    /\ LET path == args.file_path
       IN IF FindAllDigits(path) = <<>>
          THEN /\ ret' = [fn |-> "renumber_file", raised |-> "IndexError",
                          output_path |-> <<>>]
               /\ files' = files
          ELSE LET number == ExtractNumberFromStr(path)
                   output_path == RenumberedPath(path, number, args.delta)
               IN IF DirOf(output_path) # DirOf(path)
                  THEN /\ ret' = [fn |-> "renumber_file",
                                  raised |-> "FileNotFoundError",
                                  output_path |-> output_path]
                       /\ files' = files
                  ELSE /\ ret' = [fn |-> "renumber_file", raised |-> "none",
                                  output_path |-> output_path]
                       /\ files' = Put(Remove(files, path), output_path,
                                       files[path])
    /\ UNCHANGED <<trVars, args>>

NextRenumber == RenumberFile
SpecRenumber == InitRenumber /\ [][NextRenumber]_vars

RenumberCalled == ret.fn = "renumber_file"
\* The path with its last integer replaced by that integer plus delta, and
\* nothing else changed.
LastIntegerShifted(path, delta) ==
    LET runs == ReSplit(path)
        n == Len(runs)
    IN Flatten(SubSeq(runs, 1, n - 2))
          \o StrOfInt(IntOf(runs[n - 1]) + delta) \o runs[n]

\* C22: the file is renamed to the path that differs from the original only
\* in its last integer, replaced by that integer plus delta.
C22_OnlyLastIntegerChanged ==
    (RenumberCalled /\ FindAllDigits(args.file_path) # <<>>) =>
        /\ ret.raised = "none"
        /\ ret.output_path = LastIntegerShifted(args.file_path, args.delta)
        /\ DOMAIN files = {ret.output_path}

\* The same for the paths whose last integer lies in the file name and
\* whose digits occur nowhere else.
C22_SingleOccurrence ==
    (RenumberCalled /\ FindAllDigits(args.file_path) # <<>>
        /\ RenumberedPath(args.file_path,
               ExtractNumberFromStr(args.file_path), args.delta)
           = RenumberedPathLast(args.file_path,
               ExtractNumberFromStr(args.file_path), args.delta)
        /\ FindAllDigits(args.file_path)
              # FindAllDigits(DirOf(args.file_path))) =>
        /\ ret.raised = "none"
        /\ ret.output_path = LastIntegerShifted(args.file_path, args.delta)
        /\ DOMAIN files = {ret.output_path}

\* ------------------------------------------------------------------ eval_sympy
\* An expression is a sum of up to MaxTerms atoms: symbols or the number 1;
\* a substitution dictionary maps symbols to atoms.
MaxTerms == 2
SymNames == <<"a", "b", "c">>
Atoms == Range(SymNames) \cup {"1"}
Expressions == UNION {[1..n -> Atoms] : n \in 1..MaxTerms}

\* What a symbol becomes by the dictionary, and the dictionaries in which
\* no symbol leads back to itself.
Follow(d, x) == IF x \in DOMAIN d THEN d[x] ELSE x
Acyclic(d) ==
    \A k \in DOMAIN d :
        /\ Follow(d, k) # k
        /\ Follow(d, Follow(d, k)) # k
        /\ Follow(d, Follow(d, Follow(d, k))) # k
SubstituteDicts ==
    {d \in UNION {[K -> Atoms] : K \in SUBSET Range(SymNames)} : Acyclic(d)}

\* expression.subs(substitute_dict): sympy orders the pairs of a dict (the
\* symbols by name) and replaces one old symbol after the other in the
\* result of the replacements before.
RECURSIVE SubsInOrder(_, _, _)
SubsInOrder(expression, olds, d) ==
    IF olds = <<>> THEN expression
    ELSE SubsInOrder([i \in DOMAIN expression |->
                         IF expression[i] = Head(olds) THEN d[Head(olds)]
                         ELSE expression[i]],
                     Tail(olds), d)
Subs(expression, d) ==
    SubsInOrder(expression, SelectSeq(SymNames, LAMBDA n : n \in DOMAIN d), d)

InitEval ==
    /\ TrIdle
    /\ \E e \in Expressions, d \in SubstituteDicts :
          args = [fn |-> "eval_sympy", expression |-> e, substitute_dict |-> d]
    /\ files = <<>>
    /\ ret = NoCall

\* for _ in range(0, len(substitute_dict) + 1): the loop starts.
EvalBegin ==
    /\ args.fn = "eval_sympy" /\ ret = NoCall
    /\ ret' = [fn |-> "eval_sympy", pc |-> "for", turn |-> 0, new_expr |-> <<>>]
    /\ UNCHANGED <<trVars, args, files>>

\* One turn: new_expr = expression.subs(substitute_dict), and break if it
\* equals expression.  `expression` is not assigned in the loop.
EvalTurn ==
    /\ ret.fn = "eval_sympy" /\ ret.pc = "for"
    /\ ret.turn < Cardinality(DOMAIN args.substitute_dict) + 1
    /\ LET new_expr == Subs(args.expression, args.substitute_dict)
       IN ret' = [ret EXCEPT !.new_expr = new_expr,
                             !.turn = @ + 1,
                             !.pc = IF new_expr = args.expression
                                    THEN "returned" ELSE "for"]
    /\ UNCHANGED <<trVars, args, files>>

\* The range is used up: return new_expr.
EvalReturn ==
    /\ ret.fn = "eval_sympy" /\ ret.pc = "for"
    /\ ret.turn = Cardinality(DOMAIN args.substitute_dict) + 1
    /\ ret' = [ret EXCEPT !.pc = "returned"]
    /\ UNCHANGED <<trVars, args, files>>

NextEval == EvalBegin \/ EvalTurn \/ EvalReturn
SpecEval == InitEval /\ [][NextEval]_vars

EvalReturned == ret.fn = "eval_sympy" /\ ret.pc = "returned"

\* C23: the returned expression is a fixed point of the substitution:
\* substituting the dictionary once more leaves it unchanged.
C23_ResultIsFixedPoint ==
    EvalReturned => Subs(ret.new_expr, args.substitute_dict) = ret.new_expr

\* What the call returns: the expression after one substitution.
C23_ResultIsOneSubstitution ==
    EvalReturned => ret.new_expr = Subs(args.expression, args.substitute_dict)

\* ------------------------------------------ the order of H5.restructure_fl
\* The temporary store holds a root group per key, each with an entry per
\* root group of the source.
TempComplete ==
    /\ outp \in DOMAIN fs
    /\ DOMAIN fs[outp] = Range(keys)
    /\ \A k \in Range(keys) : DOMAIN fs[outp][k].items = DOMAIN Src

\* C24: in H5.restructure_fl a step writes the original file only when the
\* temporary store is complete and both handles are closed; when the method
\* has raised, the original file holds what it held before the call.
C24_OriginalWrittenLast ==
    /\ [][(variant = "fl" /\ (fs'[hd] # fs[hd] \/ pc' = "l_copied")) =>
             (hSelf = "closed" /\ hOut = "closed" /\ TempComplete)]_vars
    /\ []((variant = "fl" /\ pc = "error") =>
             (hd \in DOMAIN fs /\ fs[hd] = fs0[hd]))

\* The original file has been replaced by a complete temporary store of two
\* groups with two entries each.
C24_Witness ==
    /\ variant = "fl" /\ pc = "l_copied"
    /\ fs[hd] # fs0[hd] /\ fs[hd] = fs[outp]
    /\ Len(keys) >= 2 /\ Cardinality(DOMAIN Src) >= 2
    /\ TempComplete

\* C25: after H5.restructure_fl has returned normally the temporary file
\* does not exist, the file at the original path holds the transposed store
\* (a root group per key, in it an entry per source root group with the data
\* of that group's entry and the attributes of that group), and the object
\* is open read-only on the original path, the temporary handle closed.
C25_AfterNormalReturn ==
    (Finished /\ variant = "fl") =>
        /\ outp = TempPath(hd0) /\ outp \notin DOMAIN fs
        /\ hd = hd0 /\ hd \in DOMAIN fs
        /\ DOMAIN fs[hd] = Range(keys)
        /\ \A k \in Range(keys) :
              /\ DOMAIN fs[hd][k].items = DOMAIN Src
              /\ \A g \in DOMAIN Src :
                    /\ fs[hd][k].items[g].data = Src[g].items[k].data
                    /\ fs[hd][k].items[g].attrs = Src[g].attrs
        /\ hSelf = "r" /\ hOut = "closed"

\* A store of two groups and two keys, and a file 'temp' that was there
\* before the call.
C25_Witness ==
    /\ Finished /\ variant = "fl"
    /\ Len(keys) >= 2 /\ Cardinality(DOMAIN Src) >= 2
    /\ TempPath(hd0) \in DOMAIN fs0
    /\ TempPath(hd0) \notin DOMAIN fs
    /\ hSelf = "r"

\* C26: when H5.restructure_fl has returned or raised, every file other
\* than the original that existed before the call, a file named 'temp'
\* included, exists with the content it had.
C26_OtherFilesUnchanged ==
    (variant = "fl" /\ round = 1 /\ Terminal) =>
        \A q \in DOMAIN fs0 \ {hd0} : q \in DOMAIN fs /\ fs[q] = fs0[q]

\* The same for the files that are not named 'temp'.
C26_FilesNotNamedTempUnchanged ==
    (variant = "fl" /\ round = 1 /\ Terminal) =>
        \A q \in DOMAIN fs0 \ {hd0, TempPath(hd0)} :
            q \in DOMAIN fs /\ fs[q] = fs0[q]

\* ------------------------------------ the order of the computed key list
\* C27: the store a run of restructure_hdf5_file with computed keys
\* produces is the store the loops produce for every other order in which
\* the computed keys may be listed; and a run fails in the loops only if
\* they fail for every order.
C27_ResultIndependentOfKeyOrder ==
    (round = 1 /\ variant = "file" /\ given = <<>>) =>
        /\ pc = "done" =>
              \A ks \in GetUniques(Src) :
                  /\ RestructureLoop(Src, ks, StartAcc).ok
                  /\ RestructureLoop(Src, ks, StartAcc).st = Result
        /\ (pc = "error" /\ outp # hd) =>
              \A ks \in GetUniques(Src) : ~RestructureLoop(Src, ks, StartAcc).ok

\* A finished run that listed the keys in another than the sorted order.
C27_Witness ==
    /\ Finished /\ variant = "file" /\ given = <<>>
    /\ Len(keys) >= 2 /\ keys # SortedNames(Range(keys))
    /\ Cardinality(DOMAIN Src) >= 2
    /\ Cardinality(GetUniques(Src)) >= 2
    /\ DOMAIN Result = Range(keys)

\* ------------------------------------------- disagreeing root groups
\* Every root group of st contains every entry key that occurs in any root
\* group.
EveryGroupHoldsEveryKey(st) ==
    \A g \in DOMAIN st : DOMAIN st[g].items = AllEntryKeys(st)

\* C28: with the common keys omitted, a call of restructure_hdf5_file or
\* H5.restructure_fl returns normally if and only if every root group of the
\* source contains every entry key that occurs in any root group.
C28_ReturnsIffKeysAgree ==
    (round = 1 /\ given = <<>> /\ Terminal) =>
        (pc = "done" <=> EveryGroupHoldsEveryKey(Src))

\* C28 for calls whose destination (the output path, the temporary path) is
\* not the path of the source: such a call returns normally if and only if
\* the root groups agree on their entry keys.
C28_ReturnsIffKeysAgreeOtherDestination ==
    (round = 1 /\ given = <<>> /\ Terminal /\ outp # hd) =>
        (pc = "done" <=> EveryGroupHoldsEveryKey(Src))

\* ================================================================ files_lister
\* src/filesystem_tools.py, src/files_management_tools.py and
\* src/general_tools.py hold the same function.  A directory is the sequence
\* of the names that lead to it from the root directory.  Each directory of
\* the tree holds at most one file and one sub-directory, so the order in
\* which os.walk meets the entries of one directory plays no part.
MaxPathParts == 2

ListerDirs == {<<>>, <<"a">>, <<"a", "a">>}
ListerFiles == {<<"f">>, <<"a", "g">>, <<"a", "a", "h">>}
ListerNames == <<"a", "f", "g", "h">>
PartNames == {"a", "f", "x", ".."}

\* The Path objects handed in as root_path: absolute or relative, up to
\* MaxPathParts parts; a directory, a file, a missing name or '..'.
RootPaths ==
    {[abs |-> b, parts |-> ps] :
        b \in BOOLEAN,
        ps \in UNION {[1..n -> PartNames] : n \in 0..MaxPathParts}}

ParentDir(dir) == IF dir = <<>> THEN <<>> ELSE SubSeq(dir, 1, Len(dir) - 1)

\* root_path = str(root_path): the relative path without parts reads '.'.
PathStr(path) ==
    [abs |-> path.abs,
     parts |-> IF ~path.abs /\ path.parts = <<>> THEN <<".">> ELSE path.parts]

\* The directory a path string leads to, one part after the other; a part
\* that is a file gives NotADirectoryError, a missing one FileNotFoundError.
RECURSIVE ResolveParts(_, _)
ResolveParts(dir, parts) ==
    IF parts = <<>> THEN [ok |-> TRUE, dir |-> dir, err |-> "none"]
    ELSE LET part == Head(parts)
             nxt == IF part = "." THEN dir
                    ELSE IF part = ".." THEN ParentDir(dir)
                    ELSE Append(dir, part)
         IN IF nxt \in ListerDirs THEN ResolveParts(nxt, Tail(parts))
            ELSE [ok |-> FALSE, dir |-> dir,
                  err |-> IF nxt \in ListerFiles THEN "NotADirectoryError"
                          ELSE "FileNotFoundError"]

Resolve(cwd, str) == ResolveParts(IF str.abs THEN <<>> ELSE cwd, str.parts)

FilesIn(dir) == SelectSeq(ListerNames, LAMBDA n : Append(dir, n) \in ListerFiles)
DirsIn(dir) == SelectSeq(ListerNames, LAMBDA n : Append(dir, n) \in ListerDirs)

\* os.path.join(root, file_name)
PathJoin(root, name) == [abs |-> root.abs, parts |-> Append(root.parts, name)]

\* for root, dirs, files in os.walk(root_path): ... ; top-down, the loop left
\* after the first directory when sub_folders_option is False.  os.walk
\* yields nothing for a top it cannot list.
RECURSIVE WalkFrom(_, _, _, _)
RECURSIVE WalkDirs(_, _, _, _)
WalkFrom(dir, root, full_name_option, sub_folders_option) ==
    LET names == FilesIn(dir)
        here == [i \in 1..Len(names) |->
                    IF full_name_option THEN PathJoin(root, names[i])
                    ELSE [abs |-> FALSE, parts |-> <<names[i]>>]]
    IN IF sub_folders_option
       THEN here \o WalkDirs(dir, root, DirsIn(dir), full_name_option)
       ELSE here
WalkDirs(dir, root, subs, full_name_option) ==
    IF subs = <<>> THEN <<>>
    ELSE WalkFrom(Append(dir, Head(subs)), PathJoin(root, Head(subs)),
                  full_name_option, TRUE)
         \o WalkDirs(dir, root, Tail(subs), full_name_option)

Walk(cwd, str, full_name_option, sub_folders_option) ==
    LET top == Resolve(cwd, str)
    IN IF top.ok
       THEN WalkFrom(top.dir, str, full_name_option, sub_folders_option)
       ELSE <<>>

\* The process runs in some directory of the tree; `before` keeps the
\* working directory the latest call was made in.
InitLister ==
    /\ TrIdle
    /\ args = NoCall
    /\ \E cwd \in ListerDirs : files = [cwd |-> cwd, before |-> cwd]
    /\ ret = NoCall

ListerIdle == IF ret = NoCall THEN TRUE ELSE ret.pc \in {"returned", "raised"}

\* root_path = str(root_path); current_path = os.getcwd()
ListerBegin(root_path, full_name_option, sub_folders_option) ==
    /\ ListerIdle
    /\ args' = [fn |-> "files_lister", root_path |-> PathStr(root_path),
                full_name_option |-> full_name_option,
                sub_folders_option |-> sub_folders_option]
    /\ files' = [files EXCEPT !.before = files.cwd]
    /\ ret' = [fn |-> "files_lister", pc |-> "saved",
               current_path |-> files.cwd, strings_list |-> <<>>,
               error |-> "none"]
    /\ UNCHANGED trVars

\* os.chdir(root_path); an error leaves the function at once.
ListerChdir ==
    /\ ret # NoCall /\ ret.pc = "saved"
    /\ LET to == Resolve(files.cwd, args.root_path)
       IN IF to.ok
          THEN /\ files' = [files EXCEPT !.cwd = to.dir]
               /\ ret' = [ret EXCEPT !.pc = "changed"]
          ELSE /\ ret' = [ret EXCEPT !.pc = "raised", !.error = to.err]
               /\ UNCHANGED files
    /\ UNCHANGED <<trVars, args>>

\* strings_list = []; the loop over os.walk(root_path)
ListerWalk ==
    /\ ret # NoCall /\ ret.pc = "changed"
    /\ ret' = [ret EXCEPT !.pc = "walked",
                 !.strings_list = Walk(files.cwd, args.root_path,
                                       args.full_name_option,
                                       args.sub_folders_option)]
    /\ UNCHANGED <<trVars, args, files>>

\* Variant of ListerReturn that stays in the target directory.
ListerReturnStaying ==
    /\ ret # NoCall /\ ret.pc = "walked"
    /\ ret' = [ret EXCEPT !.pc = "returned"]
    /\ UNCHANGED <<trVars, args, files>>

\* os.chdir(current_path); return strings_list
ListerReturn ==
    /\ ret # NoCall /\ ret.pc = "walked"
    /\ files' = [files EXCEPT !.cwd =
                    Resolve(files.cwd, [abs |-> TRUE,
                                        parts |-> ret.current_path]).dir]
    /\ ret' = [ret EXCEPT !.pc = "returned"]
    /\ UNCHANGED <<trVars, args>>

\* Any sequence of calls.
NextLister ==
    \/ \E root_path \in RootPaths, full_name_option, sub_folders_option \in BOOLEAN :
           ListerBegin(root_path, full_name_option, sub_folders_option)
    \/ ListerChdir
    \/ ListerWalk
    \/ ListerReturn

SpecLister == InitLister /\ [][NextLister]_vars

ListerLeft == ret # NoCall /\ ret.pc \in {"returned", "raised"}

\* C29: on every exit of files_lister, the normal return and the error raised
\* when root_path cannot be entered, the working directory of the process is
\* the one the call was made in, whatever calls went before.
C29_CwdUnchanged ==
    ListerLeft => files.cwd = files.before

\* A call that returned a list after it had worked in another directory.
C29_Witness ==
    /\ ret # NoCall /\ ret.pc = "returned"
    /\ Resolve(files.before, args.root_path).ok
    /\ Resolve(files.before, args.root_path).dir # files.before
    /\ ret.strings_list # <<>>
    /\ files.cwd = files.before

\* A call that raised because root_path could not be entered.
ListerRaised ==
    /\ ret # NoCall /\ ret.pc = "raised"
    /\ ret.error \in {"FileNotFoundError", "NotADirectoryError"}

====
